---- MODULE Spec2Model ----
(***************************************************************************)
(* Model of src/main.py: PolyhavenDownloader.                              *)
(*                                                                         *)
(* One main thread runs main() -> __init__ -> download_all_assets; a       *)
(* ThreadPoolExecutor of max_workers threads runs download_asset tasks.    *)
(* The remote side (catalog, asset metadata, file payloads) is a fixed     *)
(* world; every network operation may fail nondeterministically.           *)
(***************************************************************************)
EXTENDS Integers, Sequences, FiniteSets, TLC

(***************************************************************************)
(* Bounds of the model.                                                    *)
(***************************************************************************)
\* Largest max_workers value the constructor is given (main() passes 5).
MaxWorkers == 2
\* Number of times main() is run over the same base directory.
MaxRuns == 2
\* Longest variant set drawn for the resolution specification.
MaxVariants == 3

(***************************************************************************)
(* Strings the code takes apart are sequences of one-character strings.    *)
(***************************************************************************)
Digits == {"0", "1", "2", "3", "4", "5", "6", "7", "8", "9"}

DigitVal(c) ==
    CASE c = "0" -> 0 [] c = "1" -> 1 [] c = "2" -> 2 [] c = "3" -> 3
      [] c = "4" -> 4 [] c = "5" -> 5 [] c = "6" -> 6 [] c = "7" -> 7
      [] c = "8" -> 8 [] c = "9" -> 9

\* str.replace(old, new) for a one-character old.
RECURSIVE Replace(_, _, _)
Replace(x, old, new) ==
    IF x = << >> THEN << >>
    ELSE (IF Head(x) = old THEN new ELSE << Head(x) >>) \o Replace(Tail(x), old, new)

\* str.isdigit(): non-empty and every character a digit.
IsDigit(x) == x # << >> /\ \A i \in 1..Len(x) : x[i] \in Digits

\* int(x) for a string of decimal digits.
RECURSIVE ParseInt(_)
ParseInt(x) ==
    IF x = << >> THEN 0
    ELSE 10 * ParseInt(SubSeq(x, 1, Len(x) - 1)) + DigitVal(x[Len(x)])

\* The key of max() at line 140 with the k -> 000 substitution dropped.
ResolutionKey_nok(x) ==
    IF IsDigit(Replace(Replace(x, "k", << >>), "m", << >>))
    THEN ParseInt(Replace(Replace(x, "k", << >>), "m", <<"0", "0", "0", "0", "0", "0">>))
    ELSE 0

\* The key of max() at line 140.
ResolutionKey(x) ==
    IF IsDigit(Replace(Replace(x, "k", << >>), "m", << >>))
    THEN ParseInt(Replace(Replace(x, "k", <<"0", "0", "0">>), "m", <<"0", "0", "0", "0", "0", "0">>))
    ELSE 0

\* max(seq, key=ResolutionKey): the first element whose key is the greatest.
RECURSIVE MaxByKey(_, _)
MaxByKey(best, rest) ==
    IF rest = << >> THEN best
    ELSE IF ResolutionKey(Head(rest)) > ResolutionKey(best)
         THEN MaxByKey(Head(rest), Tail(rest))
         ELSE MaxByKey(best, Tail(rest))

\* Lines 135-142 with the membership test dropped: always the greatest.
ChooseResolution_nopref(available_resolutions, preferred) ==
    MaxByKey(Head(available_resolutions), Tail(available_resolutions))

\* Lines 135-142 with max() keeping the last of equal keys.
RECURSIVE MaxByKeyLast(_, _)
MaxByKeyLast(best, rest) ==
    IF rest = << >> THEN best
    ELSE IF ResolutionKey(Head(rest)) >= ResolutionKey(best)
         THEN MaxByKeyLast(Head(rest), Tail(rest))
         ELSE MaxByKeyLast(best, Tail(rest))

ChooseResolution_last(available_resolutions, preferred) ==
    IF \E i \in 1..Len(available_resolutions) : available_resolutions[i] = preferred
    THEN preferred
    ELSE MaxByKeyLast(Head(available_resolutions), Tail(available_resolutions))

\* Lines 135-142: the preferred label when available, else the greatest.
\* available_resolutions is non-empty (line 131).
ChooseResolution(available_resolutions, preferred) ==
    IF \E i \in 1..Len(available_resolutions) : available_resolutions[i] = preferred
    THEN preferred
    ELSE MaxByKey(Head(available_resolutions), Tail(available_resolutions))


(***************************************************************************)
(* The remote side.  None is the empty tuple, Some(x) the one-tuple: the   *)
(* encoding of an optional value (a missing 'url', a failed info fetch).   *)
(***************************************************************************)
None == << >>
Some(x) == << x >>

\* Line 232: PREFERRED_RESOLUTION = "2k".
PREFERRED_RESOLUTION == <<"2", "k">>
\* Line 231: BASE_DIR.
BASE_DIR == "polyhaven_assets"
\* Lines 28, 181, 234: the categories, in order.
asset_types == <<"textures", "hdris", "models">>

Url(segments) == Some([path |-> segments])

\* What https://api.polyhaven.com/info/<asset_id> answers: 'files' maps each
\* file role to its resolutions (label -> file_info), or to something that
\* is not a mapping.
RemoteInfo(asset_id) ==
    CASE asset_id = "rockA" ->
           [files |-> <<
              [file_type |-> "ao", is_dict |-> TRUE, resolutions |-> << >>],
              [file_type |-> "color", is_dict |-> TRUE, resolutions |-> <<
                 [label |-> <<"1", "k">>, url |-> Url(<<"file", "rockA_col_1k.jpg">>)],
                 [label |-> <<"2", "k">>, url |-> Url(<<"file", "rockA_col_2k.jpg">>)] >>] >>]
      [] asset_id = "chair" ->
           [files |-> <<
              [file_type |-> "gltf", is_dict |-> TRUE, resolutions |-> <<
                 [label |-> <<"1", "k">>, url |-> Url(<<"file", "chair_1k.gltf">>)],
                 [label |-> <<"2", "k">>, url |-> Url(<<"file", "chair_2k.gltf">>)] >>],
              [file_type |-> "blend", is_dict |-> TRUE, resolutions |-> <<
                 [label |-> <<"4", "k">>, url |-> Url(<<"file", "chair_4k.blend">>)] >>] >>]
      [] OTHER ->
           [files |-> <<
              [file_type |-> "tonemapped", is_dict |-> FALSE, resolutions |-> << >>],
              [file_type |-> "thumb", is_dict |-> TRUE, resolutions |-> <<
                 [label |-> <<"2", "k">>, url |-> None] >>],
              [file_type |-> "hdri", is_dict |-> TRUE, resolutions |-> <<
                 [label |-> <<"1", "k">>, url |-> Url(<<"file", "sky", "1k", "">>)],
                 [label |-> <<"8", "k">>, url |-> Url(<<"file", "sky", "8k", "">>)],
                 [label |-> <<"4", "k">>, url |-> Url(<<"file", "sky", "4k", "">>)] >>] >>]

(***************************************************************************)
(* The state.                                                              *)
(***************************************************************************)
VARIABLES
    run,                  \* which run of main() this is
    max_workers,          \* self.max_workers
    preferred_resolution, \* the preferred_resolution argument
    pc,                   \* where each thread is; thread 0 is the main thread
    cat_i,                \* get_all_assets: index of the next asset_type
    all_assets,           \* get_all_assets: asset_type -> asset ids
    tasks,                \* download_all_assets: (asset_id, asset_type) list
    queue,                \* the executor's work queue (indices into tasks)
    future,               \* each task's future: pending, running, true, false, raised
    doneq,                \* finished futures not yet yielded by as_completed
    completed,            \* download_all_assets: completed
    wtask,                \* the task a worker thread is running (0: none)
    asset_info,           \* download_asset: asset_info (None before the fetch)
    role_i,               \* download_asset: index into files_info.items()
    attempt,              \* download_file: attempt
    downloaded_files,     \* download_asset: downloaded_files
    downloaded_count,     \* self.downloaded_count
    failed_count,         \* self.failed_count
    lock,                 \* self.lock: the set of threads holding it
    reg,                  \* the value a thread loaded for its += 1
    fs,                   \* the file system: path -> "empty", "partial", "full"
    fetches,              \* history: session.get calls of the current download_file call
    ncalls,               \* history: download_file calls of this run
    filefail,             \* history: some file fetch attempt of this run failed
    infofail,             \* history: some get_asset_info of this run failed
    summary,              \* the final summary of this run (None until printed)
    last_summary,         \* history: the final summary of the previous run
    resolve_in,           \* resolution specification: the available labels
    resolve_out,          \* resolution specification: the label chosen
    remote,               \* which remote side the run talks to
    download_log,         \* the file system: asset directory -> download_log.json
    printed,              \* the progress line of the latest as_completed iteration
    slept,                \* history: the time.sleep delays of the current download_file call
    got                   \* history: the paths the current download_asset call wrote in full

vars == << run, max_workers, preferred_resolution, pc, cat_i, all_assets, tasks,
           queue, future, doneq, completed, wtask, asset_info, role_i, attempt,
           downloaded_files, downloaded_count, failed_count, lock, reg, fs,
           fetches, ncalls, filefail, infofail, summary, last_summary, resolve_in,
           resolve_out, remote, download_log, printed, slept, got >>

Main == 0
WorkerIds == 1..MaxWorkers
Threads == {Main} \cup WorkerIds
\* Line 201 with the max_workers argument dropped: a pool of every thread.
Workers_unbounded == WorkerIds

\* The threads of the pool (ThreadPoolExecutor(max_workers=self.max_workers)).
Workers == 1..max_workers

\* Line 61.
max_retries == 3

\* What https://api.polyhaven.com/assets?t=<asset_type> answers: the asset
\* ids of the category, in the order of the JSON object's keys.  The remote
\* side is either a catalog of two assets in two categories or a catalog of
\* one asset with two downloadable roles.
RemoteCatalog(asset_type) ==
    CASE remote = "one_asset" /\ asset_type = "models" -> <<"chair">>
      [] remote = "one_asset" -> << >>
      [] asset_type = "textures" -> <<"rockA">>
      [] asset_type = "hdris" -> <<"sky">>
      [] OTHER -> << >>


(***************************************************************************)
(* Helpers of download_asset and download_file.                            *)
(***************************************************************************)
\* os.path.getsize of a file with the given content.
Size(content) ==
    CASE content = "empty" -> 0
      [] content = "partial" -> 1
      [] OTHER -> 2

\* Line 157 with the check dropped: every file is downloaded again.
AlreadyDownloaded_never(files, filepath) == FALSE

\* Line 157: os.path.exists(filepath) and os.path.getsize(filepath) > 0.
AlreadyDownloaded(files, filepath) ==
    filepath \in DOMAIN files /\ Size(files[filepath]) > 0

\* Line 84 with the size test dropped: os.path.exists(filepath) alone.
Verified_exists(files, filepath) == filepath \in DOMAIN files

\* Line 84: os.path.exists(filepath) and os.path.getsize(filepath) > 0.
Verified(files, filepath) ==
    filepath \in DOMAIN files /\ Size(files[filepath]) > 0

\* Line 109 with the check dropped.
InfoMissing_unchecked(info) == FALSE

\* Line 109: "if not asset_info".
InfoMissing(info) == info = None

\* Line 94 off by one: "if attempt < max_retries".
MoreRetries_offbyone(a) == a < max_retries

\* Line 94: "if attempt < max_retries - 1".
MoreRetries(a) == a < max_retries - 1

\* Line 130: list(resolutions.keys()).
AvailableResolutions(resolutions) ==
    [i \in 1..Len(resolutions) |-> resolutions[i].label]

\* Lines 144-145: resolutions.get(resolution, {}).get('url').
DownloadUrl(resolutions, resolution) ==
    IF \E i \in 1..Len(resolutions) : resolutions[i].label = resolution
    THEN resolutions[CHOOSE i \in 1..Len(resolutions) : resolutions[i].label = resolution].url
    ELSE None

\* Lines 149-152: the last segment of the URL's path, or a synthesized name
\* (urlparse(None).path is empty).
Filename(download_url, asset_id, file_type, resolution) ==
    LET path == IF download_url = None THEN << "" >> ELSE download_url[1].path
        basename == path[Len(path)]
    IN  IF basename # "" THEN << basename >>
        ELSE << asset_id, "_", file_type, "_" >> \o resolution \o << ".jpg" >>

\* Lines 113, 154: os.path.join(self.base_dir, asset_type, asset_id, filename).
FilePath(asset_id, asset_type, filename) ==
    [dir |-> << BASE_DIR, asset_type, asset_id >>, name |-> filename]

\* The task a worker runs and the locals of its download_asset call.
Task(w) == tasks[wtask[w]]
FilesInfo(w) == asset_info[w][1].files
Entry(w) == FilesInfo(w)[role_i[w]]
Resolution(w) ==
    ChooseResolution(AvailableResolutions(Entry(w).resolutions), preferred_resolution)
CurUrl(w) == DownloadUrl(Entry(w).resolutions, Resolution(w))
CurPath(w) ==
    FilePath(Task(w).asset_id, Task(w).asset_type,
             Filename(CurUrl(w), Task(w).asset_id, Entry(w).file_type, Resolution(w)))

\* Lines 126-147 with the test of line 147 dropped: a variant without a URL
\* is handed to download_file.
NoDownload_nourlcheck(w) ==
    \/ ~Entry(w).is_dict
    \/ Entry(w).resolutions = << >>

\* Lines 126-147: the role has nothing to download.
NoDownload(w) ==
    \/ ~Entry(w).is_dict
    \/ Entry(w).resolutions = << >>
    \/ CurUrl(w) = None

\* What one attempt (lines 67-81) can do to the destination: fail before the
\* file is opened, or open (truncate) it and write nothing, a part or all of
\* the payload, ending with or without an exception.
FetchOutcomes ==
    { [opened |-> FALSE, content |-> "empty", raised |-> TRUE],
      [opened |-> TRUE, content |-> "empty", raised |-> TRUE],
      [opened |-> TRUE, content |-> "partial", raised |-> TRUE],
      [opened |-> TRUE, content |-> "empty", raised |-> FALSE],
      [opened |-> TRUE, content |-> "full", raised |-> FALSE] }

\* open(filepath, 'wb') and the writes of one attempt.
Written(files, filepath, o) ==
    IF o.opened
    THEN [p \in DOMAIN files \cup {filepath} |->
            IF p = filepath THEN o.content ELSE files[p]]
    ELSE files

(***************************************************************************)
(* Init: __init__ has run (lines 10-24) and download_all_assets starts.    *)
(***************************************************************************)
Fresh ==
    /\ pc = [t \in Threads |-> IF t = Main THEN "get_all_assets" ELSE "idle"]
    /\ cat_i = 1
    /\ all_assets = << >>
    /\ tasks = << >>
    /\ queue = << >>
    /\ future = << >>
    /\ doneq = << >>
    /\ completed = 0
    /\ wtask = [w \in WorkerIds |-> 0]
    /\ asset_info = [w \in WorkerIds |-> None]
    /\ role_i = [w \in WorkerIds |-> 0]
    /\ attempt = [w \in WorkerIds |-> 0]
    /\ downloaded_files = [w \in WorkerIds |-> << >>]
    /\ downloaded_count = 0
    /\ failed_count = 0
    /\ lock = {}
    /\ reg = [t \in Threads |-> 0]
    /\ fetches = [w \in WorkerIds |-> 0]
    /\ ncalls = 0
    /\ filefail = FALSE
    /\ infofail = FALSE
    /\ printed = None
    /\ slept = [w \in WorkerIds |-> << >>]
    /\ got = [w \in WorkerIds |-> << >>]

Init ==
    /\ Fresh
    /\ run = 1
    /\ max_workers \in 0..MaxWorkers
    /\ preferred_resolution = PREFERRED_RESOLUTION
    /\ remote = "two_assets"
    /\ fs = << >>
    /\ download_log = << >>
    /\ summary = None
    /\ last_summary = None
    /\ resolve_in = << >>
    /\ resolve_out = None


(***************************************************************************)
(* The main thread: download_all_assets.                                   *)
(***************************************************************************)
res_vars == << resolve_in, resolve_out >>
sum_vars == << summary, last_summary >>
cfg_vars == << run, max_workers, preferred_resolution >>
worker_vars == << wtask, asset_info, role_i, attempt, downloaded_files, fetches >>
count_vars == << downloaded_count, failed_count, lock, reg >>
pool_vars == << tasks, queue, future, doneq, completed >>

\* Lines 40 and 44 with line 44 dropped: a failed category is not recorded.
RecordCatalog_unrecorded(assets, asset_type, ok) ==
    IF ok
    THEN [t \in DOMAIN assets \cup {asset_type} |->
            IF t = asset_type THEN RemoteCatalog(t) ELSE assets[t]]
    ELSE assets

\* Lines 40 and 44: all_assets[asset_type] = assets, or {} after a failure.
RecordCatalog(assets, asset_type, ok) ==
    [t \in DOMAIN assets \cup {asset_type} |->
       IF t = asset_type
       THEN (IF ok THEN RemoteCatalog(t) ELSE << >>)
       ELSE assets[t]]

\* Lines 31-46: one iteration of get_all_assets; the fetch answers or fails.
FetchCatalog ==
    /\ pc[Main] = "get_all_assets"
    /\ cat_i <= Len(asset_types)
    /\ \E ok \in BOOLEAN :
         all_assets' = RecordCatalog(all_assets, asset_types[cat_i], ok)
    /\ cat_i' = cat_i + 1
    /\ pc' = [pc EXCEPT ![Main] =
                IF cat_i = Len(asset_types) THEN "create_tasks" ELSE "get_all_assets"]
    /\ UNCHANGED << cfg_vars, pool_vars, worker_vars, count_vars, fs, ncalls,
                    filefail, infofail, sum_vars, res_vars,
                    remote, download_log, printed, slept, got >>

\* Lines 193-196: the tasks of the categories from index i on.
RECURSIVE TasksFrom(_, _)
TasksFrom(assets, i) ==
    IF i > Len(asset_types) THEN << >>
    ELSE LET ids == IF asset_types[i] \in DOMAIN assets
                    THEN assets[asset_types[i]] ELSE << >>
         IN  [k \in 1..Len(ids) |-> [asset_id |-> ids[k], asset_type |-> asset_types[i]]]
             \o TasksFrom(assets, i + 1)

\* ThreadPoolExecutor(max_workers=n) raises ValueError unless n >= 1.
PoolAccepts(n) == n >= 1

\* Lines 192-205: build the task list, create the pool, submit every task.
CreateTasks ==
    /\ pc[Main] = "create_tasks"
    /\ tasks' = TasksFrom(all_assets, 1)
    /\ IF PoolAccepts(max_workers)
       THEN /\ queue' = [k \in 1..Len(tasks') |-> k]
            /\ future' = [k \in 1..Len(tasks') |-> "pending"]
            /\ pc' = [pc EXCEPT ![Main] = "as_completed"]
       ELSE /\ UNCHANGED << queue, future >>
            /\ pc' = [pc EXCEPT ![Main] = "crashed"]
    /\ completed' = 0
    /\ UNCHANGED << cfg_vars, cat_i, all_assets, doneq, worker_vars, count_vars, fs,
                    ncalls, filefail, infofail, sum_vars, res_vars,
                    remote, download_log, printed, slept, got >>

\* Lines 216-219 without the except clause: the exception leaves the loop.
CatchesTaskError_uncaught(state) == FALSE

\* Lines 216-219: the except clause around future.result().
CatchesTaskError(state) == state = "raised"

\* Line 210 counting from the task's place in the submission order.
Progress_submission(n, k) == k

\* Line 210: completed += 1.
Progress(n, k) == n + 1

\* Lines 214 and 217: the status printed for a future's outcome.
Status(state) ==
    CASE state = "true" -> "ok"
      [] state = "false" -> "failed"
      [] OTHER -> "error"

\* Lines 208-217: as_completed yields the next finished future; its progress
\* line is printed.
Collect ==
    /\ pc[Main] = "as_completed"
    /\ doneq # << >>
    /\ completed' = Progress(completed, Head(doneq))
    /\ doneq' = Tail(doneq)
    /\ printed' = Some([status |-> Status(future[Head(doneq)]),
                         completed |-> completed', total |-> Len(tasks),
                         task |-> tasks[Head(doneq)]])
    /\ pc' = [pc EXCEPT ![Main] =
                IF CatchesTaskError(future[Head(doneq)]) THEN "lock_failed"
                ELSE IF future[Head(doneq)] = "raised" THEN "crashed"
                ELSE "as_completed"]
    /\ UNCHANGED << cfg_vars, cat_i, all_assets, tasks, queue, future, worker_vars,
                    count_vars, fs, ncalls, filefail, infofail, sum_vars, res_vars,
                    remote, download_log, slept, got >>

\* The counters updated without the lock.
LockFree_unguarded == TRUE

\* "with self.lock:" is entered when no thread holds the lock.
LockFree == lock = {}

\* Lines 85, 97, 218: enter "with self.lock:" and load the counter.
LockAcquire(t) ==
    /\ pc[t] \in {"lock_downloaded", "lock_failed"}
    /\ LockFree
    /\ lock' = {t}
    /\ reg' = [reg EXCEPT ![t] =
                 IF pc[t] = "lock_downloaded" THEN downloaded_count ELSE failed_count]
    /\ pc' = [pc EXCEPT ![t] =
                IF pc[t] = "lock_downloaded" THEN "inc_downloaded" ELSE "inc_failed"]
    /\ UNCHANGED << cfg_vars, cat_i, all_assets, pool_vars, worker_vars,
                    downloaded_count, failed_count, fs, ncalls, filefail, infofail,
                    sum_vars, res_vars,
                    remote, download_log, printed, slept, got >>

\* Lines 218-219: store failed_count + 1, leave the lock, go on collecting.
MainIncFailed ==
    /\ pc[Main] = "inc_failed"
    /\ failed_count' = reg[Main] + 1
    /\ reg' = [reg EXCEPT ![Main] = 0]
    /\ lock' = {}
    /\ pc' = [pc EXCEPT ![Main] = "as_completed"]
    /\ UNCHANGED << cfg_vars, cat_i, all_assets, pool_vars, worker_vars,
                    downloaded_count, fs, ncalls, filefail, infofail,
                    sum_vars, res_vars,
                    remote, download_log, printed, slept, got >>

\* Some category's catalog fetch failed in this run (lines 42-44).
CatalogFailed ==
    \E i \in 1..Len(asset_types) :
        /\ asset_types[i] \in DOMAIN all_assets
        /\ all_assets[asset_types[i]] # RemoteCatalog(asset_types[i])

\* Lines 221-225: the loop is over and the pool is shut down; final summary.
Summary ==
    /\ pc[Main] = "as_completed"
    /\ completed = Len(tasks)
    /\ summary' = Some([succeeded |-> downloaded_count, failed |-> failed_count,
                         filefail |-> filefail,
                         metafail |-> (infofail \/ CatalogFailed),
                         raised |-> \E k \in 1..Len(tasks) : future[k] = "raised"])
    /\ pc' = [pc EXCEPT ![Main] = "done"]
    /\ printed' = None
    /\ UNCHANGED << cfg_vars, cat_i, all_assets, pool_vars, worker_vars, count_vars,
                    fs, ncalls, filefail, infofail, last_summary, res_vars,
                    remote, download_log, slept, got >>

\* Lines 227-246: main() is run again over the same BASE_DIR; __init__ makes a
\* new downloader (counters 0, new lock), the files stay.
Restart ==
    /\ pc[Main] = "done"
    /\ run < MaxRuns
    /\ run' = run + 1
    /\ pc' = [t \in Threads |-> IF t = Main THEN "get_all_assets" ELSE "idle"]
    /\ cat_i' = 1
    /\ all_assets' = << >>
    /\ tasks' = << >>
    /\ queue' = << >>
    /\ future' = << >>
    /\ doneq' = << >>
    /\ completed' = 0
    /\ wtask' = [w \in WorkerIds |-> 0]
    /\ asset_info' = [w \in WorkerIds |-> None]
    /\ role_i' = [w \in WorkerIds |-> 0]
    /\ attempt' = [w \in WorkerIds |-> 0]
    /\ downloaded_files' = [w \in WorkerIds |-> << >>]
    /\ downloaded_count' = 0
    /\ failed_count' = 0
    /\ lock' = {}
    /\ reg' = [t \in Threads |-> 0]
    /\ fetches' = [w \in WorkerIds |-> 0]
    /\ ncalls' = 0
    /\ filefail' = FALSE
    /\ infofail' = FALSE
    /\ summary' = None
    /\ last_summary' = summary
    /\ printed' = None
    /\ slept' = [w \in WorkerIds |-> << >>]
    /\ got' = [w \in WorkerIds |-> << >>]
    /\ UNCHANGED << max_workers, preferred_resolution, fs, res_vars,
                    remote, download_log >>


(***************************************************************************)
(* The pool's threads: download_asset and download_file.                   *)
(***************************************************************************)
\* The future of w's task gets its result (or exception) and w is idle again.
Finish(w, state) ==
    /\ future' = [future EXCEPT ![wtask[w]] = state]
    /\ doneq' = Append(doneq, wtask[w])
    /\ wtask' = [wtask EXCEPT ![w] = 0]
    /\ asset_info' = [asset_info EXCEPT ![w] = None]
    /\ role_i' = [role_i EXCEPT ![w] = 0]
    /\ downloaded_files' = [downloaded_files EXCEPT ![w] = << >>]
    /\ got' = [got EXCEPT ![w] = << >>]
    /\ pc' = [pc EXCEPT ![w] = "idle"]

\* A thread of the pool takes the next work item off the queue.  The threads
\* are interchangeable: of the idle ones, the lowest-numbered takes it.
StartTask(w) ==
    /\ w \in Workers
    /\ pc[w] = "idle"
    /\ \A v \in Workers : v < w => pc[v] # "idle"
    /\ queue # << >>
    /\ wtask' = [wtask EXCEPT ![w] = Head(queue)]
    /\ queue' = Tail(queue)
    /\ future' = [future EXCEPT ![Head(queue)] = "running"]
    /\ pc' = [pc EXCEPT ![w] = "get_asset_info"]
    /\ UNCHANGED << cfg_vars, cat_i, all_assets, tasks, doneq, completed, asset_info,
                    role_i, attempt, downloaded_files, fetches, count_vars, fs,
                    ncalls, filefail, infofail, sum_vars, res_vars,
                    remote, download_log, printed, slept, got >>

\* Lines 108-110 (get_asset_info, lines 48-57): the fetch answers or fails;
\* without asset_info the call returns False.
GetAssetInfo(w) ==
    /\ pc[w] = "get_asset_info"
    /\ \E ok \in BOOLEAN :
         LET info == IF ok THEN Some(RemoteInfo(Task(w).asset_id)) ELSE None
         IN  /\ infofail' = (infofail \/ ~ok)
             /\ IF InfoMissing(info)
                THEN /\ Finish(w, "false")
                ELSE /\ asset_info' = [asset_info EXCEPT ![w] = info]
                     /\ pc' = [pc EXCEPT ![w] = "save_metadata"]
                     /\ UNCHANGED << future, doneq, wtask, role_i, downloaded_files, got >>
    /\ UNCHANGED << cfg_vars, cat_i, all_assets, tasks, queue, completed, attempt,
                    fetches, count_vars, fs, ncalls, filefail, sum_vars, res_vars,
                    remote, download_log, printed, slept >>

\* Lines 113-123: make the asset directory and write metadata.json, which may
\* raise (OSError); asset_info.get raises when asset_info is None.
SaveMetadata(w) ==
    /\ pc[w] = "save_metadata"
    /\ \E oserror \in BOOLEAN :
         IF oserror \/ asset_info[w] = None
         THEN /\ Finish(w, "raised")
         ELSE /\ role_i' = [role_i EXCEPT ![w] = 1]
              /\ downloaded_files' = [downloaded_files EXCEPT ![w] = << >>]
              /\ pc' = [pc EXCEPT ![w] = "for_file_type"]
              /\ UNCHANGED << future, doneq, wtask, asset_info, got >>
    /\ UNCHANGED << cfg_vars, cat_i, all_assets, tasks, queue, completed, attempt,
                    fetches, count_vars, fs, ncalls, filefail, infofail, sum_vars,
                    res_vars,
                    remote, download_log, printed, slept >>

\* Lines 125-162: one iteration of the loop over files_info, up to the call
\* of download_file: roles without a download and files already there are
\* passed over.
NextRole(w) ==
    /\ pc[w] = "for_file_type"
    /\ role_i[w] <= Len(FilesInfo(w))
    /\ IF NoDownload(w) \/ AlreadyDownloaded(fs, CurPath(w))
       THEN /\ role_i' = [role_i EXCEPT ![w] = role_i[w] + 1]
            /\ UNCHANGED << pc, attempt, fetches, ncalls >>
       ELSE /\ pc' = [pc EXCEPT ![w] = "attempt"]
            /\ attempt' = [attempt EXCEPT ![w] = 0]
            /\ fetches' = [fetches EXCEPT ![w] = 0]
            /\ ncalls' = ncalls + 1
            /\ UNCHANGED role_i
    /\ UNCHANGED << cfg_vars, cat_i, all_assets, pool_vars, wtask, asset_info,
                    downloaded_files, count_vars, fs, filefail, infofail, sum_vars,
                    res_vars,
                    remote, download_log, printed, slept, got >>

\* Lines 64-99: one attempt of download_file: fetch, write, verify; on an
\* exception, decide between another attempt and giving up.
Attempt(w) ==
    /\ pc[w] = "attempt"
    /\ \E o \in FetchOutcomes :
         /\ fs' = Written(fs, CurPath(w), o)
         /\ IF ~o.raised /\ Verified(fs', CurPath(w))
            THEN /\ pc' = [pc EXCEPT ![w] = "lock_downloaded"]
                 /\ got' = [got EXCEPT ![w] = Append(@, CurPath(w))]
                 /\ UNCHANGED filefail
            ELSE /\ pc' = [pc EXCEPT ![w] =
                             IF MoreRetries(attempt[w]) THEN "sleep" ELSE "lock_failed"]
                 /\ filefail' = TRUE
                 /\ UNCHANGED got
    /\ fetches' = [fetches EXCEPT ![w] = fetches[w] + 1]
    /\ UNCHANGED << cfg_vars, cat_i, all_assets, pool_vars, wtask, asset_info, role_i,
                    attempt, downloaded_files, count_vars, ncalls, infofail,
                    sum_vars, res_vars,
                    remote, download_log, printed, slept >>

\* Line 95 with a fixed delay: time.sleep(1) after every failed attempt.
BackoffDelay_fixed(a) == 1

\* Line 95: the argument of time.sleep, 2 ** attempt seconds.
BackoffDelay(a) == 2 ^ a

\* Line 95: time.sleep(2 ** attempt), then the next iteration of the loop.
Backoff(w) ==
    /\ pc[w] = "sleep"
    /\ slept' = [slept EXCEPT ![w] = Append(@, BackoffDelay(attempt[w]))]
    /\ attempt' = [attempt EXCEPT ![w] = attempt[w] + 1]
    /\ pc' = [pc EXCEPT ![w] = "attempt"]
    /\ UNCHANGED << cfg_vars, cat_i, all_assets, pool_vars, wtask, asset_info, role_i,
                    downloaded_files, fetches, count_vars, fs, ncalls, filefail,
                    infofail, sum_vars, res_vars,
                    remote, download_log, printed, got >>

\* Lines 86-88 and 162-168: store downloaded_count + 1, leave the lock,
\* return True; download_asset records the file and goes to the next role.
IncDownloaded(w) ==
    /\ w \in WorkerIds
    /\ pc[w] = "inc_downloaded"
    /\ downloaded_count' = reg[w] + 1
    /\ lock' = {}
    /\ downloaded_files' =
         [downloaded_files EXCEPT ![w] =
            Append(@, [type |-> Entry(w).file_type, resolution |-> Resolution(w),
                       path |-> CurPath(w), url |-> CurUrl(w)])]
    /\ role_i' = [role_i EXCEPT ![w] = role_i[w] + 1]
    /\ reg' = [reg EXCEPT ![w] = 0]
    /\ attempt' = [attempt EXCEPT ![w] = 0]
    /\ fetches' = [fetches EXCEPT ![w] = 0]
    /\ slept' = [slept EXCEPT ![w] = << >>]
    /\ pc' = [pc EXCEPT ![w] = "for_file_type"]
    /\ UNCHANGED << cfg_vars, cat_i, all_assets, pool_vars, wtask, asset_info,
                    failed_count, fs, ncalls, filefail,
                    infofail, sum_vars, res_vars,
                    remote, download_log, printed, got >>

\* Lines 98-99 and 162: store failed_count + 1, leave the lock, return False;
\* download_asset goes to the next role.
IncFailed(w) ==
    /\ w \in WorkerIds
    /\ pc[w] = "inc_failed"
    /\ failed_count' = reg[w] + 1
    /\ lock' = {}
    /\ role_i' = [role_i EXCEPT ![w] = role_i[w] + 1]
    /\ reg' = [reg EXCEPT ![w] = 0]
    /\ attempt' = [attempt EXCEPT ![w] = 0]
    /\ fetches' = [fetches EXCEPT ![w] = 0]
    /\ slept' = [slept EXCEPT ![w] = << >>]
    /\ pc' = [pc EXCEPT ![w] = "for_file_type"]
    /\ UNCHANGED << cfg_vars, cat_i, all_assets, pool_vars, wtask, asset_info,
                    downloaded_files, downloaded_count, fs,
                    ncalls, filefail, infofail, sum_vars, res_vars,
                    remote, download_log, printed, got >>

\* Line 171 with the condition dropped: the manifest is written by every call.
ManifestWritten_always(files) == TRUE

\* Line 171: "if downloaded_files".
ManifestWritten(files) == files # << >>

\* Lines 172-174: download_log.json in the asset's directory holds files.
WriteLog(logs, dir, files) ==
    [d \in DOMAIN logs \cup {dir} |-> IF d = dir THEN files ELSE logs[d]]

\* Line 176 returning True whatever was downloaded.
AssetResult_always(files) == "true"

\* Line 176: return len(downloaded_files) > 0.
AssetResult(files) == IF Len(files) > 0 THEN "true" ELSE "false"

\* Lines 171-176: after the last role, write the manifest if anything was
\* downloaded and return whether anything was downloaded.
FinishAsset(w) ==
    /\ pc[w] = "for_file_type"
    /\ role_i[w] > Len(FilesInfo(w))
    /\ download_log' =
         IF ManifestWritten(downloaded_files[w])
         THEN WriteLog(download_log,
                       FilePath(Task(w).asset_id, Task(w).asset_type, << >>).dir,
                       downloaded_files[w])
         ELSE download_log
    /\ Finish(w, AssetResult(downloaded_files[w]))
    /\ UNCHANGED << cfg_vars, cat_i, all_assets, tasks, queue, completed, attempt,
                    fetches, count_vars, fs, ncalls, filefail, infofail, sum_vars,
                    res_vars,
                    remote, printed, slept >>

Next ==
    \/ FetchCatalog
    \/ CreateTasks
    \/ Collect
    \/ MainIncFailed
    \/ Summary
    \/ Restart
    \/ \E t \in Threads : LockAcquire(t)
    \/ \E w \in WorkerIds :
         \/ StartTask(w)
         \/ GetAssetInfo(w)
         \/ SaveMetadata(w)
         \/ NextRole(w)
         \/ Attempt(w)
         \/ Backoff(w)
         \/ IncDownloaded(w)
         \/ IncFailed(w)
         \/ FinishAsset(w)

Spec == Init /\ [][Next]_vars

\* The same program against the remote side with one asset: a single task
\* with two downloadable roles.
InitAsset ==
    /\ Fresh
    /\ run = 1
    /\ max_workers \in 1..MaxWorkers
    /\ preferred_resolution = PREFERRED_RESOLUTION
    /\ remote = "one_asset"
    /\ fs = << >>
    /\ download_log = << >>
    /\ summary = None
    /\ last_summary = None
    /\ resolve_in = << >>
    /\ resolve_out = None

SpecAsset == InitAsset /\ [][Next]_vars


(***************************************************************************)
(* The resolution specification: lines 130-142 applied to every variant    *)
(* set of up to MaxVariants distinct labels (the keys of a JSON object)    *)
(* drawn from LabelPool, under each preferred label of PreferredPool.      *)
(***************************************************************************)
LabelPool ==
    { <<"1", "k">>, <<"2", "k">>, <<"8", "k">>, <<"1", "6", "k">>,
      <<"8", "0", "0", "0">>, <<"1", "m">>, <<"x">>, <<"2", "x">> }

PreferredPool == { <<"2", "k">>, <<"4", "k">> }

VariantSets ==
    UNION { { v \in [1..n -> LabelPool] : \A i, j \in 1..n : i # j => v[i] # v[j] }
            : n \in 1..MaxVariants }

InitResolve ==
    /\ Fresh
    /\ run = 1
    /\ max_workers = MaxWorkers
    /\ preferred_resolution \in PreferredPool
    /\ remote = "two_assets"
    /\ fs = << >>
    /\ download_log = << >>
    /\ summary = None
    /\ last_summary = None
    /\ resolve_in \in VariantSets
    /\ resolve_out = None

\* Lines 130-142 for one role: available_resolutions is resolve_in.
Resolve ==
    /\ resolve_out = None
    /\ resolve_in # << >>
    /\ resolve_out' = Some(ChooseResolution(resolve_in, preferred_resolution))
    /\ UNCHANGED << cfg_vars, pc, cat_i, all_assets, pool_vars, worker_vars,
                    count_vars, fs, ncalls, filefail, infofail, sum_vars, resolve_in,
                    remote, download_log, printed, slept, got >>

NextResolve == Resolve

SpecResolve == InitResolve /\ [][NextResolve]_vars

Contains(seq, x) == \E i \in 1..Len(seq) : seq[i] = x
IndexOf(seq, x) == CHOOSE i \in 1..Len(seq) : seq[i] = x

\* C6: whenever the variant set contains the preferred label, resolution
\* selects exactly the preferred label, whatever the other labels are.
C6_PreferredSelected ==
    (resolve_out # None /\ Contains(resolve_in, preferred_resolution))
        => resolve_out = Some(preferred_resolution)

\* C6 witness: the preferred label was selected although a label of greater
\* magnitude stands before it in the set.
C6_Witness ==
    /\ resolve_out = Some(preferred_resolution)
    /\ Len(resolve_in) >= 2
    /\ resolve_in[1] = <<"8", "k">>
    /\ Contains(resolve_in, preferred_resolution)

\* The magnitude C7 states: the number formed by the label's leading digits,
\* in thousands when "k" follows them ("2k" -> 2000), in millions for "m";
\* 0 for a label that does not start with a digit.
RECURSIVE LeadingDigits(_)
LeadingDigits(x) ==
    IF x = << >> \/ Head(x) \notin Digits THEN << >>
    ELSE << Head(x) >> \o LeadingDigits(Tail(x))

LeadingMagnitude(x) ==
    LET d == LeadingDigits(x)
        rest == SubSeq(x, Len(d) + 1, Len(x))
    IN  IF d = << >> THEN 0
        ELSE IF rest # << >> /\ Head(rest) = "k" THEN ParseInt(d) * 1000
        ELSE IF rest # << >> /\ Head(rest) = "m" THEN ParseInt(d) * 1000000
        ELSE ParseInt(d)

RECURSIVE Positional(_, _)
Positional(acc, x) ==
    IF x = << >> THEN acc
    ELSE IF Head(x) = "k" THEN Positional(acc * 1000, Tail(x))
    ELSE IF Head(x) = "m" THEN Positional(acc * 1000000, Tail(x))
    ELSE Positional(acc * 10 + DigitVal(Head(x)), Tail(x))

WholeLabelMagnitude(x) ==
    IF /\ \A i \in 1..Len(x) : x[i] \in Digits \cup {"k", "m"}
       /\ \E i \in 1..Len(x) : x[i] \in Digits
    THEN Positional(0, x)
    ELSE 0

Raised == { k \in 1..Len(future) : future[k] = "raised" }
Finished == { k \in 1..Len(future) : future[k] \in {"true", "false", "raised"} }
Acts(w) == pc'[w] # pc[w] \/ role_i'[w] # role_i[w] \/ fetches'[w] # fetches[w]
             \/ attempt'[w] # attempt[w]
SameCounts == downloaded_count' = downloaded_count /\ failed_count' = failed_count

\* C1: a download_file call none of whose fetches succeeds makes exactly 3
\* attempts: it goes on to another attempt after the first and the second
\* failure, gives up only after the third, then returns False having added
\* exactly 1 to failed_count and nothing to downloaded_count.
C1_ThreeAttemptsOneFailure ==
    [][\A w \in WorkerIds :
          /\ (pc[w] = "attempt" /\ pc'[w] = "sleep") => fetches'[w] < 3
          /\ (pc[w] = "attempt" /\ pc'[w] = "lock_failed") => fetches'[w] = 3
          /\ (pc[w] \in {"attempt", "sleep", "lock_failed"} /\ Acts(w)) => SameCounts
          /\ (pc[w] = "inc_failed" /\ Acts(w))
               => /\ fetches[w] = 3
                  /\ failed_count' = failed_count + 1
                  /\ downloaded_count' = downloaded_count
                  /\ pc'[w] = "for_file_type"
                  /\ downloaded_files'[w] = downloaded_files[w]]_vars

\* C1 witness: a transfer has failed for good: the run is over with one
\* failure counted, no task having raised.
C1_Witness ==
    /\ pc[Main] = "done"
    /\ failed_count = 1
    /\ downloaded_count = 1
    /\ Raised = {}

\* C2: when no file fetch fails and no task raises, the run ends with
\* downloaded_count equal to the number of download_file calls made (the
\* number of tasks in a first run whose info fetches all answer, each asset
\* having one file) and failed_count 0, whatever the number of workers and
\* the interleaving.
C2_NoLostUpdate ==
    (pc[Main] = "done" /\ ~filefail /\ Raised = {})
        => /\ downloaded_count = ncalls
           /\ failed_count = 0
           /\ (run = 1 /\ ~infofail) => downloaded_count = Len(tasks)

\* C2 witness: a run of two workers over two tasks ended with both files counted.
C2_Witness ==
    /\ pc[Main] = "done"
    /\ max_workers = 2
    /\ Len(tasks) = 2
    /\ ~filefail
    /\ Raised = {}
    /\ downloaded_count = 2
    /\ failed_count = 0

\* Some thread of the run can take a step.
WorkerCanStep(w) ==
    \/ pc[w] \in {"get_asset_info", "save_metadata", "for_file_type", "attempt",
                  "sleep", "inc_downloaded", "inc_failed"}
    \/ pc[w] \in {"lock_downloaded", "lock_failed"} /\ lock = {}
    \/ pc[w] = "idle" /\ queue # << >> /\ \A v \in Workers : v < w => pc[v] # "idle"
MainCanStep ==
    \/ pc[Main] \in {"get_all_assets", "create_tasks", "inc_failed"}
    \/ pc[Main] = "lock_failed" /\ lock = {}
    \/ pc[Main] = "as_completed" /\ (doneq # << >> \/ completed = Len(tasks))
CanStep == MainCanStep \/ \E w \in Workers : WorkerCanStep(w)

\* C3: a task that raised never aborts the run: the main thread does not
\* crash, the run is never stuck before its summary, and at the summary
\* every task has run to completion and failed_count holds one failure per
\* task that raised (plus the download_file calls that returned False).
C3_TaskErrorContained ==
    /\ Raised # {} => pc[Main] # "crashed"
    /\ Raised # {} => (pc[Main] = "done" \/ CanStep)
    /\ pc[Main] = "done"
         => /\ Finished = 1..Len(tasks)
            /\ failed_count = Cardinality(Raised) + (ncalls - downloaded_count)

\* C3 witness: the first task raised, the second one downloaded its file, and
\* the summary shows exactly one failure.
C3_Witness ==
    /\ pc[Main] = "done"
    /\ Len(tasks) = 2
    /\ future[1] = "raised"
    /\ future[2] = "true"
    /\ failed_count = 1
    /\ downloaded_count = 1

\* A role's destination exists and is non-empty.
NonEmptyAt(w) ==
    /\ pc[w] = "for_file_type"
    /\ role_i[w] <= Len(FilesInfo(w))
    /\ ~NoDownload(w)
    /\ CurPath(w) \in DOMAIN fs
    /\ fs[CurPath(w)] \in {"partial", "full"}

\* C4: a role whose destination already exists and is non-empty is passed
\* over: no download_file call and no fetch, the files unchanged, neither
\* counter changed.
C4_SkipExisting ==
    [][\A w \in WorkerIds :
          (NonEmptyAt(w) /\ Acts(w))
             => /\ pc'[w] = "for_file_type"
                /\ role_i'[w] = role_i[w] + 1
                /\ fs' = fs
                /\ fetches' = fetches
                /\ ncalls' = ncalls
                /\ SameCounts]_vars

\* C4 witness: a second run is over in which both files were already there:
\* no download_file call was made and nothing was counted.
C4_Witness ==
    /\ run = 2
    /\ pc[Main] = "done"
    /\ Len(tasks) = 2
    /\ ~infofail
    /\ Raised = {}
    /\ Cardinality(DOMAIN fs) = 2
    /\ \A p \in DOMAIN fs : fs[p] = "full"
    /\ ncalls = 0
    /\ failed_count = 0

\* C5 as stated: a second run, after a first run in which every fetch
\* succeeded, ends with the same succeeded and failed counts as the first.
C5_SameSummary ==
    (/\ run = 2
     /\ summary # None
     /\ last_summary # None
     /\ ~last_summary[1].filefail /\ ~last_summary[1].metafail /\ ~last_summary[1].raised
     /\ ~summary[1].filefail /\ ~summary[1].metafail /\ ~summary[1].raised)
        => /\ summary[1].succeeded = last_summary[1].succeeded
           /\ summary[1].failed = last_summary[1].failed

\* C8 as stated: in a later run a file is fetched again unless it is a
\* completed download: a file whose transfer failed, a partial file included,
\* is attempted again, and a completed one is not.
C8_FailedRetried ==
    [][\A w \in WorkerIds :
          (/\ run >= 2
           /\ pc[w] = "for_file_type"
           /\ role_i[w] <= Len(FilesInfo(w))
           /\ ~NoDownload(w)
           /\ Acts(w))
             => (pc'[w] = "attempt"
                   <=> ~(CurPath(w) \in DOMAIN fs /\ fs[CurPath(w)] = "full"))]_vars

\* C9: when get_asset_info fails the task ends at once with False: no
\* download_file call, no file written, neither counter changed, and the
\* worker is free for the next task.
C9_InfoFailureSkipsAsset ==
    [][\A w \in WorkerIds :
          (pc[w] = "get_asset_info" /\ Acts(w) /\ asset_info'[w] = None)
             => /\ future'[wtask[w]] = "false"
                /\ pc'[w] = "idle"
                /\ queue' = queue
                /\ fs' = fs
                /\ ncalls' = ncalls
                /\ SameCounts]_vars

\* C9 witness: one asset's info fetch failed, the other asset was downloaded,
\* and the summary shows one file and no failure.
C9_Witness ==
    /\ run = 1
    /\ pc[Main] = "done"
    /\ Len(tasks) = 2
    /\ infofail
    /\ ~filefail
    /\ Raised = {}
    /\ downloaded_count = 1
    /\ failed_count = 0

\* C10: get_all_assets records every category it has passed, a failed one as
\* empty; it always goes on to the remaining categories and to the tasks, and
\* a category recorded empty produces no task.
C10_CatalogFailureDegrades ==
    /\ pc[Main] = "get_all_assets"
         => DOMAIN all_assets = { asset_types[i] : i \in 1..(cat_i - 1) }
    /\ pc[Main] # "get_all_assets"
         => DOMAIN all_assets = { asset_types[i] : i \in 1..Len(asset_types) }
    /\ \A t \in DOMAIN all_assets : all_assets[t] \in {RemoteCatalog(t), << >>}
    /\ pc[Main] \notin {"get_all_assets", "create_tasks"}
         => /\ \A k \in 1..Len(tasks) :
                  /\ all_assets[tasks[k].asset_type] # << >>
                  /\ Contains(all_assets[tasks[k].asset_type], tasks[k].asset_id)
            /\ \A t \in DOMAIN all_assets : \A i \in 1..Len(all_assets[t]) :
                  \E k \in 1..Len(tasks) :
                      tasks[k] = [asset_id |-> all_assets[t][i], asset_type |-> t]

\* C10 witness: the catalog fetch of "textures" failed, that of "hdris"
\* answered, and the run ended having downloaded the file of the one task.
C10_Witness ==
    /\ pc[Main] = "done"
    /\ all_assets["textures"] = << >>
    /\ all_assets["hdris"] = <<"sky">>
    /\ Len(tasks) = 1
    /\ downloaded_count = 1

\* C11: a downloader constructed with max_workers < 1 issues no catalog
\* fetch, no metadata fetch and no file transfer: the run is rejected before
\* any work begins.
C11_RejectedBeforeWork ==
    max_workers < 1
        => /\ cat_i = 1
           /\ all_assets = << >>
           /\ ncalls = 0
           /\ ~infofail
           /\ \A w \in WorkerIds : pc[w] = "idle"

\* C13: an attempt of download_file counts as successful only if afterwards
\* the destination exists with a size above 0.  An attempt that leaves the
\* destination missing or empty, even one that ended without an exception, is
\* a failed attempt: it is followed by another attempt while fewer than 3
\* fetches were made and by the giving-up return otherwise, and the call
\* never adds to downloaded_count.
C13_EmptyIsFailure ==
    [][\A w \in WorkerIds :
         /\ (pc[w] = "attempt" /\ Acts(w))
              => LET present == /\ CurPath(w) \in DOMAIN fs'
                                /\ fs'[CurPath(w)] # "empty"
                 IN  /\ pc'[w] = "lock_downloaded" => present
                     /\ ~present
                          => /\ pc'[w] = (IF fetches'[w] < 3 THEN "sleep"
                                          ELSE "lock_failed")
                             /\ filefail'
         /\ (pc[w] \in {"sleep", "lock_failed", "inc_failed"} /\ Acts(w))
              => /\ downloaded_count' = downloaded_count
                 /\ pc'[w] \in {"attempt", "lock_failed", "inc_failed", "for_file_type"}
    ]_vars

\* C13 witness: the only attempt so far opened the destination and left it
\* empty, and the call is waiting to try again.
C13_Witness ==
    \E w \in WorkerIds :
        /\ pc[w] = "sleep"
        /\ fetches[w] = 1
        /\ CurPath(w) \in DOMAIN fs
        /\ fs[CurPath(w)] = "empty"

\* The directory of the asset of the task worker w runs.
AssetDir(w) == << BASE_DIR, Task(w).asset_type, Task(w).asset_id >>

\* The manifest entry describes a variant the remote side offers for a role
\* of the asset: the role, the variant's label and the variant's URL.
Offered(asset_id, e) ==
    \E r \in 1..Len(RemoteInfo(asset_id).files) :
        LET role == RemoteInfo(asset_id).files[r]
        IN  /\ e.type = role.file_type
            /\ \E v \in 1..Len(role.resolutions) :
                   /\ e.resolution = role.resolutions[v].label
                   /\ e.url = role.resolutions[v].url
                   /\ e.url # None

\* C12: download_log.json changes only when a download_asset call returns
\* after its roles.  A call that newly downloaded no file leaves every
\* manifest as it was; a call that newly downloaded at least one file leaves
\* in its asset's directory a manifest of exactly the files it wrote, in the
\* order it wrote them, each with its role, variant, path and source URL, and
\* leaves the manifests of other directories alone.
C12_ManifestOfNewFiles ==
    [][/\ download_log' # download_log
            => \E w \in WorkerIds :
                   pc[w] = "for_file_type" /\ pc'[w] = "idle" /\ got[w] # << >>
       /\ \A w \in WorkerIds :
            (pc[w] = "for_file_type" /\ pc'[w] = "idle")
              => IF got[w] = << >>
                 THEN download_log' = download_log
                 ELSE /\ DOMAIN download_log' = DOMAIN download_log \cup {AssetDir(w)}
                      /\ \A d \in DOMAIN download_log :
                           d # AssetDir(w) => download_log'[d] = download_log[d]
                      /\ LET m == download_log'[AssetDir(w)]
                         IN  /\ Len(m) = Len(got[w])
                             /\ \A i \in 1..Len(m) :
                                  /\ m[i].path = got[w][i]
                                  /\ m[i].path.dir = AssetDir(w)
                                  /\ Offered(Task(w).asset_id, m[i])
    ]_vars

\* C12 witness: one call downloaded both roles of the asset and its manifest
\* lists the two files in the order of the roles.
C12_Witness ==
    LET d == << BASE_DIR, "models", "chair" >>
    IN  /\ d \in DOMAIN download_log
        /\ Len(download_log[d]) = 2
        /\ download_log[d][1].type = "gltf"
        /\ download_log[d][1].resolution = <<"2", "k">>
        /\ download_log[d][2].type = "blend"
        /\ download_log[d][2].resolution = <<"4", "k">>

\* The tasks in flight: submitted, taken by a thread of the pool, not finished.
InFlight == { k \in 1..Len(future) : future[k] = "running" }

\* Every task in flight is run by exactly one thread of the pool, a thread
\* runs at most one task, and no more tasks are in flight than max_workers.
PoolBounded ==
    /\ Cardinality(InFlight) <= max_workers
    /\ \A w \in WorkerIds : (wtask[w] # 0) <=> (pc[w] # "idle")
    /\ \A w \in WorkerIds : wtask[w] # 0 => (w \in 1..max_workers /\ wtask[w] \in InFlight)
    /\ \A k \in InFlight : \E w \in WorkerIds : wtask[w] = k
    /\ \A v, w \in WorkerIds : (v # w /\ wtask[v] # 0) => wtask[v] # wtask[w]

\* C14: with max_workers = N at most N tasks are in flight at any time, each
\* run by one thread of the pool; a thread takes a task only when it runs
\* none, and the task it leaves has finished: its whole download_asset call
\* has returned or raised.
C14_BoundedConcurrency ==
    [][/\ PoolBounded
       /\ PoolBounded'
       /\ \A w \in WorkerIds :
            wtask'[w] # wtask[w]
              => \/ /\ wtask[w] = 0
                    /\ pc[w] = "idle"
                    /\ future[wtask'[w]] = "pending"
                    /\ future'[wtask'[w]] = "running"
                 \/ /\ wtask'[w] = 0
                    /\ pc'[w] = "idle"
                    /\ future[wtask[w]] = "running"
                    /\ future'[wtask[w]] \in {"true", "false", "raised"}
                 \/ run' # run
    ]_vars

\* C14 witness: a pool of one thread over two tasks: the second task is still
\* queued while the first is in flight.
C14_Witness ==
    /\ max_workers = 1
    /\ Len(tasks) = 2
    /\ Cardinality(InFlight) = 1
    /\ queue # << >>
    /\ \E w \in WorkerIds : pc[w] = "attempt"

\* The delays the retry policy prescribes after the first n failed attempts:
\* 1 time unit, then 2.
PrescribedDelays(n) == SubSeq(<< 1, 2 >>, 1, n)

\* C15: within one download_file call, failed attempt i (counted from 0) is
\* followed, unless it was the third, by a sleep of 2^i seconds before
\* attempt i + 1: 1 second after the first, 2 after the second.  There is no
\* sleep after the third failed attempt and none after a successful attempt.
C15_BackoffSchedule ==
    \A w \in WorkerIds :
        CASE pc[w] = "attempt" ->
               /\ fetches[w] = attempt[w]
               /\ slept[w] = PrescribedDelays(attempt[w])
          [] pc[w] = "sleep" ->
               /\ fetches[w] = attempt[w] + 1
               /\ fetches[w] < 3
               /\ slept[w] = PrescribedDelays(fetches[w] - 1)
          [] pc[w] \in {"lock_failed", "inc_failed"} ->
               /\ fetches[w] = 3
               /\ slept[w] = << 1, 2 >>
          [] pc[w] \in {"lock_downloaded", "inc_downloaded"} ->
               /\ fetches[w] \in 1..3
               /\ slept[w] = PrescribedDelays(fetches[w] - 1)
          [] OTHER -> slept[w] = << >>

\* C15 witness: a call gave up after three failed attempts, having slept 1
\* and then 2 seconds and nothing after the third failure.
C15_Witness ==
    \E w \in WorkerIds :
        /\ pc[w] = "inc_failed"
        /\ fetches[w] = 3
        /\ slept[w] = << 1, 2 >>

\* C16: the index k of the progress line "[k/total]" counts the tasks in the
\* order as_completed yields them, which is the order they finished in and
\* not the order they were submitted in: the first line has k = 1, each
\* further line has k one above the line before and reports the task that
\* finished earliest among those not yet reported, total is the number of
\* submitted tasks, every yielded task gets its line, and when the loop ends
\* the last line printed has k = total.
C16_ProgressFollowsCompletion ==
    [][/\ (printed' # printed /\ printed' # None)
            => /\ pc[Main] = "as_completed"
               /\ doneq # << >>
               /\ completed' = completed + 1
               /\ printed'[1].completed = completed'
               /\ printed'[1].completed =
                     (IF printed = None THEN 1 ELSE printed[1].completed + 1)
               /\ printed'[1].total = Len(tasks)
               /\ printed'[1].completed <= printed'[1].total
               /\ printed'[1].task = tasks[Head(doneq)]
               /\ future[Head(doneq)] \in {"true", "false", "raised"}
       /\ (run' = run /\ completed' # completed) => printed' # printed
       /\ (pc[Main] = "as_completed" /\ pc'[Main] = "done" /\ tasks # << >>)
            => /\ printed # None
               /\ printed[1].completed = Len(tasks)
               /\ doneq = << >>
    ]_vars

\* C16 witness: of two submitted tasks the second one finished first and is
\* reported as [1/2].
C16_Witness ==
    /\ printed # None
    /\ Len(tasks) = 2
    /\ printed[1].completed = 1
    /\ printed[1].total = 2
    /\ printed[1].task = tasks[2]

\* The role worker w is at has nothing to fetch: its value is not a mapping,
\* its variant set is empty, or the variant selected from it has no URL.
NothingToFetch(w) ==
    LET e == Entry(w)
    IN  \/ ~e.is_dict
        \/ e.resolutions = << >>
        \/ LET labels == [i \in 1..Len(e.resolutions) |-> e.resolutions[i].label]
               chosen == ChooseResolution(labels, preferred_resolution)
           IN  \A i \in 1..Len(e.resolutions) :
                   e.resolutions[i].label = chosen => e.resolutions[i].url = None

\* C17: a role whose value is not a mapping, whose variant set is empty or
\* whose selected variant has no URL is passed over: no download_file call
\* and no fetch is made for it, no file and no counter changes, nothing is
\* added to the call's downloaded files, and the call goes on with the next
\* role of the same asset.
C17_RoleWithoutDownloadSkipped ==
    [][\A w \in WorkerIds :
         (/\ pc[w] = "for_file_type"
          /\ role_i[w] <= Len(FilesInfo(w))
          /\ NothingToFetch(w)
          /\ Acts(w))
            => /\ pc'[w] = "for_file_type"
               /\ role_i'[w] = role_i[w] + 1
               /\ wtask'[w] = wtask[w]
               /\ asset_info'[w] = asset_info[w]
               /\ downloaded_files'[w] = downloaded_files[w]
               /\ ncalls' = ncalls
               /\ fetches' = fetches
               /\ fs' = fs
               /\ SameCounts
               /\ future' = future
    ]_vars

\* C17 witness: the task of the asset whose first role is not a mapping and
\* whose second role's variant has no URL went on to its third role and
\* downloaded it, with one download_file call in the run.
C17_Witness ==
    \E k \in 1..Len(future) :
        /\ tasks[k].asset_id = "sky"
        /\ future[k] = "true"
        /\ Len(tasks) = 1
        /\ ncalls = 1
        /\ downloaded_count = 1
        /\ failed_count = 0

\* The threads of the pool that are inside a download_file call.
InCall ==
    { w \in WorkerIds : pc[w] \in {"attempt", "sleep", "lock_downloaded",
                                    "inc_downloaded", "lock_failed", "inc_failed"} }

\* The tasks that raised and whose except clause (lines 216-219) is over.
RaisedCounted ==
    Cardinality(Raised)
      - Cardinality({ i \in 1..Len(doneq) : future[doneq[i]] = "raised" })
      - (IF pc[Main] \in {"lock_failed", "inc_failed"} THEN 1 ELSE 0)

\* downloaded_count + failed_count is the number of download_file calls that
\* have returned plus the number of raised tasks already counted.
Accounted ==
    downloaded_count + failed_count = (ncalls - Cardinality(InCall)) + RaisedCounted

\* C18: within a run, a download_file call changes the counters exactly once,
\* at its return: downloaded_count + 1 when it returns True, failed_count + 1
\* when it returns False, the other counter untouched; the only other change
\* is failed_count + 1 for a task that raised.  Hence neither counter ever
\* decreases, at every moment the two counters add up to the calls that have
\* returned plus the raised tasks counted, and at the summary to the number
\* of download_file calls made plus the number of tasks that raised.
C18_OneCountPerCall ==
    [][run' = run
         => /\ Accounted
            /\ Accounted'
            /\ downloaded_count' \in {downloaded_count, downloaded_count + 1}
            /\ failed_count' \in {failed_count, failed_count + 1}
            /\ downloaded_count' = downloaded_count + 1
                 => /\ failed_count' = failed_count
                    /\ \E w \in WorkerIds :
                          pc[w] = "inc_downloaded" /\ pc'[w] = "for_file_type"
            /\ failed_count' = failed_count + 1
                 => \/ \E w \in WorkerIds :
                          pc[w] = "inc_failed" /\ pc'[w] = "for_file_type"
                    \/ pc[Main] = "inc_failed" /\ pc'[Main] = "as_completed"
            /\ \A w \in WorkerIds :
                 (w \in InCall /\ pc'[w] = "for_file_type")
                   => downloaded_count' + failed_count'
                        = downloaded_count + failed_count + 1
            /\ pc'[Main] = "done"
                 => downloaded_count' + failed_count'
                      = ncalls' + Cardinality(Raised')
    ]_vars

\* C18 witness: a run of two tasks ended: one raised, the other's only
\* download_file call returned False, and the counters read 0 and 2.
C18_Witness ==
    /\ pc[Main] = "done"
    /\ Len(tasks) = 2
    /\ Cardinality(Raised) = 1
    /\ ncalls = 1
    /\ downloaded_count = 0
    /\ failed_count = 2

\* C20: a download_asset call returns True exactly when it newly downloaded
\* at least one file, and False when it returns having downloaded none; the
\* progress line shows success only for a True result.  So a task whose
\* roles were all passed over (files already present, or nothing to fetch)
\* is reported as failed, and a run in which no download_file call was made
\* and no task raised reports every task as failed with both counters 0.
C20_TrueIffNewFile ==
    [][/\ \A w \in WorkerIds :
            (pc[w] # "idle" /\ pc'[w] = "idle" /\ run' = run)
              => /\ future'[wtask[w]] = "true" => got[w] # << >>
                 /\ future'[wtask[w]] = "false" => got[w] = << >>
                 /\ pc[w] = "for_file_type" => future'[wtask[w]] \in {"true", "false"}
                 /\ SameCounts
       /\ (printed' # printed /\ printed' # None)
            => /\ printed'[1].status = "ok" <=> future[Head(doneq)] = "true"
               /\ printed'[1].status = "failed" <=> future[Head(doneq)] = "false"
               /\ SameCounts
       /\ (pc'[Main] = "done" /\ run' = run /\ ncalls' = 0 /\ Raised' = {})
            => /\ downloaded_count' = 0
               /\ failed_count' = 0
               /\ \A k \in 1..Len(future') : future'[k] = "false"
    ]_vars

\* C20 witness: in a second run both assets' info was fetched and both files
\* were found present: no download_file call was made, the last task is
\* reported as failed, and both counters are 0.
C20_Witness ==
    /\ run = 2
    /\ last_summary # None
    /\ last_summary[1].succeeded = 2
    /\ Len(tasks) = 2
    /\ completed = 2
    /\ ~infofail
    /\ ncalls = 0
    /\ printed # None
    /\ printed[1].status = "failed"
    /\ downloaded_count = 0
    /\ failed_count = 0

\* A bound on the steps of one role of download_asset: the step to the call,
\* max_retries attempts with max_retries - 1 sleeps between them, and the two
\* steps of the locked increment.
RoleSteps == 2 * max_retries + 2

\* A bound on the steps of one task in a thread of the pool: taking it,
\* get_asset_info, metadata.json, its roles, and the return.
TaskSteps(task) == RoleSteps * Len(RemoteInfo(task.asset_id).files) + 4

\* The steps of the main thread per task: the progress line and, for a task
\* that raised, the locked increment.
CollectSteps == 3

RECURSIVE SumOver(_, _)
SumOver(f, n) == IF n = 0 THEN 0 ELSE f[n] + SumOver(f, n - 1)

\* A bound on the steps left in the download_file call of worker w.
CallSteps(w) ==
    CASE pc[w] = "attempt" -> 2 * (max_retries - attempt[w]) + 1
      [] pc[w] = "sleep" -> 2 * (max_retries - attempt[w])
      [] pc[w] \in {"lock_downloaded", "lock_failed"} -> 2
      [] pc[w] \in {"inc_downloaded", "inc_failed"} -> 1
      [] OTHER -> 0

\* A bound on the steps left in the task of worker w.
WorkerSteps(w) ==
    LET n == IF asset_info[w] = None THEN 0 ELSE Len(FilesInfo(w))
    IN  CASE pc[w] = "idle" -> 0
          [] pc[w] = "get_asset_info" -> TaskSteps(Task(w)) - 1
          [] pc[w] = "save_metadata" -> RoleSteps * n + 2
          [] pc[w] = "for_file_type" -> RoleSteps * (n - role_i[w] + 1) + 1
          [] OTHER -> CallSteps(w) + RoleSteps * (n - role_i[w]) + 1

\* A bound on the steps every asset of the remote catalog can take.
CatalogSteps ==
    SumOver([i \in 1..Len(asset_types) |->
               LET ids == RemoteCatalog(asset_types[i])
               IN  SumOver([k \in 1..Len(ids) |->
                              TaskSteps([asset_id |-> ids[k]]) + CollectSteps],
                           Len(ids))],
            Len(asset_types))

\* A bound on the steps left to the main thread.
MainSteps ==
    LET loop == CollectSteps * (Len(tasks) - completed) + 1
    IN  CASE pc[Main] = "get_all_assets" ->
               (Len(asset_types) - cat_i + 1) + 2 + CatalogSteps
          [] pc[Main] = "create_tasks" -> 2 + CatalogSteps
          [] pc[Main] = "as_completed" -> loop
          [] pc[Main] = "lock_failed" -> loop + 2
          [] pc[Main] = "inc_failed" -> loop + 1
          [] OTHER -> 0

\* A bound on the steps left to the run: it is 0 or more and every step of
\* the run lowers it.
StepsLeft ==
    MainSteps
      + SumOver([w \in WorkerIds |-> WorkerSteps(w)], MaxWorkers)
      + SumOver([i \in 1..Len(queue) |-> TaskSteps(tasks[queue[i]])], Len(queue))

====
